---- MODULE Spec2Model ----
(***************************************************************************)
(* A model of the labdevices drivers: the open/close life cycle of every   *)
(* driver class, the interface the classes expose, the step/unit           *)
(* conversion of the STF03D stepper driver and the waveform decoding of    *)
(* the oscilloscope drivers.                                               *)
(***************************************************************************)
EXTENDS Integers, Sequences, FiniteSets, TLC

VARIABLES
    cls,        \* life cycle: the driver class of the instance under test
    handle,     \* life cycle: self._device: "None", "open" or "closed"
    hist,       \* life cycle: the calls made so far, each with its outcome
    probe,      \* life cycle: result of the last interface probe
    calib,      \* STF03D: self._units_per_motor_turn, NONE until set
    devMR,      \* STF03D: the microstep code the drive reports
    out,        \* STF03D: the last unit-aware call and its outcome
    scope,      \* waveform: the settings the instrument reports
    data,       \* waveform: the samples of the record the instrument holds
    trace,      \* waveform: the last read-out call and its outcome
    stale,      \* life cycle: transports opened, dropped and never closed
    wire,       \* sockets: what query() and write() put on the transport
    call,       \* getters: the last constructor or getter call and its outcome
    ctrl        \* SMC100: the state code of the controller

vars ==
    <<cls, handle, hist, probe, calib, devMR, out, scope, data, trace, stale,
      wire, call, ctrl>>

\* Longest call history explored on one instance.
MaxOps == 3

\* Nothing was put on the transport yet, and no getter was called.
NoWire ==
    [queries |-> 0, served |-> 0, sends |-> 0, recvs |-> 0, writes |-> 0,
     pending |-> <<>>, buffer |-> <<>>,
     last |-> [op |-> "none", sent |-> 0, received |-> 0, exc |-> "none",
               cmd |-> "none", answer |-> "none"]]

\* CTRL_STATUS of the SMC100 controller.
CTRL_STATUS ==
    [configuration |-> 20, moving |-> 40, ready_from_homing |-> 50,
     ready_from_moving |-> 51, ready_from_disable |-> 52,
     ready_from_jogging |-> 53]

NoCtrl == CTRL_STATUS.ready_from_homing

NoCall == [op |-> "none", arg |-> <<>>, exc |-> "none", val |-> <<>>]

(***************************************************************************)
(* Life cycle: initialize() and close() of every driver class              *)
(***************************************************************************)
Drivers ==
    {"STF03D", "Counter", "KeysightOscilloscope", "FPC1000", "RSOscilloscope",
     "DG645", "SMC100", "TPG362", "SpectrumAnalyzer", "LocalOscillator",
     "TSP01", "Manta", "_Device"}

\* The base class whose initialize/close a driver class runs.
BaseOf(c) ==
    CASE c \in {"Counter", "KeysightOscilloscope"} -> "KeysightDevice"
      [] c \in {"FPC1000", "RSOscilloscope"}       -> "RSDevice"
      [] OTHER                                     -> c

\* What the transport answers to a request made during a call.
TransportReplies == {"reply", "timeout"}

Ret(h, e) == [handle |-> h, exc |-> e]

\* Using self._device for I/O: None has no methods, a closed socket refuses.
SocketUse(h, reply) ==
    CASE h = "None"   -> "AttributeError"
      [] h = "closed" -> "OSError"
      [] OTHER        -> IF reply = "timeout" THEN "timeout" ELSE "none"

STF03D_close(h) ==
    IF h = "None" THEN Ret(h, "none") ELSE Ret("closed", "none")

KeysightDevice_close(h) ==
    IF h = "None" THEN Ret(h, "none") ELSE Ret("None", "none")

\* The None branch prints and falls through to self._device.before_close().
RSDevice_close(h) ==
    IF h = "None" THEN Ret(h, "AttributeError") ELSE Ret("None", "none")

\* close() first prints self.idn, a query on the socket.
DG645_close(h, reply) ==
    LET e == SocketUse(h, reply)
    IN  IF e # "none" THEN Ret(h, e) ELSE Ret("closed", "none")

\* SMC100, TPG362, SpectrumAnalyzer, TSP01: close the transport when there
\* is one, keep the reference.
GuardedClose(h) ==
    IF h = "None" THEN Ret(h, "none") ELSE Ret("closed", "none")

\* before_close() of the VISA library on a session that is already closed
\* is the library's business: it may pass or raise InvalidSession.
LocalOscillator_close(h, lib) ==
    CASE h = "None"   -> Ret(h, "none")
      [] h = "closed" -> Ret(h, lib)
      [] OTHER        -> Ret("closed", "none")

Manta_close(h) ==
    IF h = "None" THEN Ret(h, "none") ELSE Ret("None", "none")

\* Both branches read self._dev.name: None has no attributes and
\* _MockInterface defines _name and get_name() only.
Device_close(h) ==
    IF h = "None" THEN Ret(h, "AttributeError")
    ELSE Ret("closed", "AttributeError")

close(c, h, reply, lib) ==
    CASE BaseOf(c) = "STF03D"          -> STF03D_close(h)
      [] BaseOf(c) = "KeysightDevice"  -> KeysightDevice_close(h)
      [] BaseOf(c) = "RSDevice"        -> RSDevice_close(h)
      [] BaseOf(c) = "DG645"           -> DG645_close(h, reply)
      [] BaseOf(c) = "LocalOscillator" -> LocalOscillator_close(h, lib)
      [] BaseOf(c) = "Manta"           -> Manta_close(h)
      [] BaseOf(c) = "_Device"         -> Device_close(h)
      [] OTHER                         -> GuardedClose(h)

\* initialize() stores a fresh transport in self._device; the classes that
\* print self.idn through the transport (DG645) fail when it times out.
initialize(c, h, reply) ==
    IF BaseOf(c) = "DG645" /\ reply = "timeout"
    THEN Ret("open", "timeout")
    ELSE Ret("open", "none")

(***************************************************************************)
(* Interface: the names each class offers                                  *)
(***************************************************************************)
KeysightDeviceOps == {"initialize", "close", "write", "query", "ieee_query", "idn"}

RSDeviceOps ==
    {"initialize", "close", "write", "query", "ieee_query", "idn",
     "get_system_alarm"}

\* The public methods and properties a driver class defines or inherits.
ClassOps(c) ==
    CASE c = "STF03D" ->
           {"initialize", "close", "idn", "write", "query", "set_calibration",
            "get_alarm", "get_status", "is_moving", "microstep", "max_current",
            "idle_current", "change_current", "get_position", "reset_position",
            "get_immediate_step", "acceleration", "deceleration", "speed",
            "move_relative", "move_absolute"}
      [] c = "Counter" ->
           KeysightDeviceOps \cup
           {"reset", "gate_time", "trigger_mode", "measure_frequency"}
      [] c = "KeysightOscilloscope" ->
           KeysightDeviceOps \cup
           {"set_t_scale", "get_volt_avg", "get_volt_max", "get_volt_peakpeak",
            "get_screen_shot", "get_trace", "get_preamble"}
      [] c = "FPC1000" -> RSDeviceOps \cup {"get_trace"}
      [] c = "RSOscilloscope" ->
           RSDeviceOps \cup
           {"get_volt_avg", "get_volt_max", "get_volt_peakpeak", "get_trace",
            "get_preamble", "get_screen_shot", "set_t_scale"}
      [] c = "DG645" ->
           {"initialize", "close", "write", "query", "idn", "set_delay",
            "get_delay", "get_output_level"}
      [] c = "SMC100" ->
           {"initialize", "write", "query", "close", "idn", "is_moving",
            "wait_move_finish", "error_and_controller_status",
            "get_last_command_error", "move_rel", "move_abs", "position",
            "home", "reset", "speed", "acceleration"}
      [] c = "TPG362" ->
           {"initialize", "close", "idn", "error_status", "pressure_gauge",
            "pressure_gauges", "pressure_unit", "pressure_val_gauge1",
            "pressure_val_gauge2", "temperature"}
      [] c = "SpectrumAnalyzer" ->
           {"initialize", "close", "write", "query", "idn", "finish",
            "sampling", "do_sweep", "get_x_data", "get_y_data", "get_ana",
            "center", "span", "get_measurement_mode", "set_measurement_mode",
            "get_trigger_mode", "set_hold_mode"}
      [] c = "LocalOscillator" ->
           {"initialize", "close", "write", "query", "idn", "get_status",
            "set_giga_hz", "set_mega_hz", "set_kilo_hz", "set_hz",
            "set_frequency"}
      [] c = "TSP01" ->
           {"initialize", "close", "write", "query", "clear_status", "idn",
            "temperature_usb", "humidity_usb", "temperature_probe1",
            "temperature_probe2"}
      [] c = "Manta" ->
           {"initialize", "close", "idn", "model_name", "packet_size",
            "exposure", "gain", "roi_x", "roi_y", "roi_dx", "roi_dy",
            "sensor_size", "acquisition_mode", "take_single_img", "trig_mode",
            "trig_source", "pix_format"}
      [] OTHER -> {"initialize", "close"}

\* Whether __init__ of the class sets self._device (_Device sets _dev).
HasDeviceAttr(c) == c # "_Device"

\* The public names a Dummy instance offers: the methods of the Dummy class,
\* those it inherits when it derives from the driver, and the attributes
\* its __init__ sets.
DummyOps(c) ==
    CASE c = "Counter" ->
           {"idn", "address", "gate_time", "trigger_mode", "initialize",
            "close", "reset", "measure_frequency"}
      [] c = "KeysightOscilloscope" ->
           {"port", "result", "idn", "initialize", "close", "set_t_scale",
            "get_volt_avg", "get_volt_max", "get_volt_peakpeak", "screen_shot",
            "get_trace"}
      [] c = "FPC1000" ->
           {"address", "idn", "initialize", "close", "get_trace"}
      [] c = "RSOscilloscope" ->
           {"address", "value", "idn", "initialize", "close", "get_volt_avg",
            "get_volt_max", "get_volt_peakpeak", "get_trace"}
      [] c = "SMC100" ->
           {"port", "dev_number", "idn", "pos", "initialize", "write", "query",
            "move_rel", "move_abs", "position", "close", "wait_move_finish"}
      [] c = "TPG362" ->
           {"initialize", "close", "idn", "error_status", "pressure_gauge",
            "pressure_gauges", "pressure_unit", "pressure_val_gauge1",
            "pressure_val_gauge2", "temperature"}
      [] OTHER -> ClassOps(c)

\* The classes that ship a Dummy counterpart.
WithDummy == Drivers \ {"_Device"}

\* DeviceMeta.__subclasscheck__: the five names the interface test asks of
\* the class.
DeviceCheck(ops) == {"initialize", "close", "write", "query", "idn"} \subseteq ops

\* The classes the interface test constructs and checks.
InterfaceTested == Drivers \ {"Manta", "_Device"}

NoProbe ==
    [kind |-> "none", isDevice |-> FALSE, hasDevice |-> FALSE, missing |-> {}]

\* The interface test of one driver: assertIsInstance(driver, Device) and
\* hasattr(driver, '_device').
InterfaceTest ==
    /\ cls \in InterfaceTested
    /\ probe' = [kind |-> "interface",
                 isDevice |-> DeviceCheck(ClassOps(cls)),
                 hasDevice |-> HasDeviceAttr(cls),
                 missing |-> {}]
    /\ UNCHANGED <<cls, handle, hist, calib, devMR, out, scope, data, trace, stale, wire, call, ctrl>>

\* Comparing the Dummy with the driver it stands for: the driver's public
\* names the Dummy lacks.
DummyTest ==
    /\ cls \in WithDummy
    /\ probe' = [kind |-> "dummy",
                 isDevice |-> DeviceCheck(DummyOps(cls)),
                 hasDevice |-> HasDeviceAttr(cls),
                 missing |-> ClassOps(cls) \ DummyOps(cls)]
    /\ UNCHANGED <<cls, handle, hist, calib, devMR, out, scope, data, trace, stale, wire, call, ctrl>>

Call(op, r) == [op |-> op, exc |-> r.exc]

\* initialize() overwrites self._device without closing the transport it
\* held.  The dropped object is closed by its finalizer when the runtime
\* collects it, at once or later.
Finalizer == {"at once", "later"}

Dropped(h, gc) == IF h = "open" /\ gc = "later" THEN 1 ELSE 0

\* Transports the instance opened that are open now.
OpenTransports == stale + (IF handle = "open" THEN 1 ELSE 0)

Initialize ==
    /\ Len(hist) < MaxOps
    /\ \E reply \in TransportReplies, gc \in Finalizer :
         LET r == initialize(cls, handle, reply)
         IN  /\ handle' = r.handle
             /\ hist' = Append(hist, Call("initialize", r))
             /\ stale' = stale + Dropped(handle, gc)
    /\ UNCHANGED <<cls, probe, calib, devMR, out, scope, data, trace, wire, call, ctrl>>

\* The runtime collects a dropped transport; its finalizer closes it.
Collect ==
    /\ stale > 0
    /\ stale' = stale - 1
    /\ UNCHANGED <<cls, handle, hist, probe, calib, devMR, out, scope, data,
                   trace, wire, call, ctrl>>

Close ==
    /\ Len(hist) < MaxOps
    /\ \E reply \in TransportReplies, lib \in {"none", "InvalidSession"} :
         LET r == close(cls, handle, reply, lib)
         IN  /\ handle' = r.handle
             /\ hist' = Append(hist, Call("close", r))
    /\ UNCHANGED <<cls, probe, calib, devMR, out, scope, data, trace, stale, wire, call, ctrl>>

(***************************************************************************)
(* STF03D: step/unit conversion and the unit-aware commands                *)
(***************************************************************************)
\* Steps of a full motor turn for each microstep resolution code.
STEPS_PER_TURN ==
    (0 :> 200) @@ (1 :> 400) @@ (3 :> 2000) @@ (4 :> 5000) @@ (5 :> 10000) @@
    (6 :> 12800) @@ (7 :> 18000) @@ (8 :> 20000) @@ (9 :> 21600) @@
    (10 :> 25000) @@ (11 :> 25400) @@ (12 :> 25600) @@ (13 :> 36000) @@
    (14 :> 50000) @@ (15 :> 50800)

\* The microstep property documents the range 0..15 for the resolution code.
MicrostepCodes == 0..15

\* Numbers the driver computes with are kept as exact fractions n/d, d > 0.
RECURSIVE GCD(_, _)
GCD(a, b) == IF b = 0 THEN a ELSE GCD(b, a % b)

Abs(x) == IF x < 0 THEN -x ELSE x

Rat(n, d) ==
    LET g == GCD(Abs(n), Abs(d))
        s == IF d < 0 THEN -1 ELSE 1
    IN  [n |-> s * (n \div g), d |-> s * (d \div g)]

\* An integer as a fraction, and the absent value (Python's None).
Whole(k) == [n |-> k, d |-> 1]
NONE == [n |-> 0, d |-> 0]
IsNone(x) == x.d = 0

\* The fraction (a.n * b.n) / (a.d * b.d), in lowest terms.
Times(a, b) ==
    LET g1 == GCD(Abs(a.n), Abs(b.d))
        g2 == GCD(Abs(b.n), Abs(a.d))
        h1 == IF g1 = 0 THEN 1 ELSE g1
        h2 == IF g2 = 0 THEN 1 ELSE g2
    IN  Rat((a.n \div h1) * (b.n \div h2), (a.d \div h2) * (b.d \div h1))

\* The fractions a - b and a + b.
Minus(a, b) ==
    LET g == GCD(a.d, b.d)
    IN  Rat(a.n * (b.d \div g) - b.n * (a.d \div g), (a.d \div g) * b.d)

Plus(a, b) == Minus(a, [n |-> -b.n, d |-> b.d])

\* The fraction a / b, b # 0.
Over(a, b) == Times(a, [n |-> b.d, d |-> b.n])

\* Python's round(): to the nearest integer, a tie goes to the even one.
round(p, q) ==
    LET f == p \div q
        r == p - f * q
    IN  IF 2 * r < q THEN f
        ELSE IF 2 * r > q THEN f + 1
        ELSE IF f % 2 = 0 THEN f ELSE f + 1

\* The outcome of a call: the exception it raised ("none" when it
\* returned), the value it returned and the commands it sent.
Ok(v, s) == [exc |-> "none", val |-> v, sent |-> s]
Raise(e, s) == [exc |-> e, val |-> NONE, sent |-> s]

\* query(cmd): write() sends on self._device, _read() blocks for the reply.
query(h, cmd, reply, answer) ==
    CASE h = "None"        -> Raise("AttributeError", <<>>)
      [] h = "closed"      -> Raise("OSError", <<>>)
      [] reply = "timeout" -> Raise("timeout", <<cmd>>)
      [] OTHER             -> Ok(answer, <<cmd>>)

\* The microstep property: the code the device reports to 'MR'.
microstep(h, reply, code) == query(h, <<"MR">>, reply, Whole(code))

\* _conversion_factor that takes a calibration of 1 when none was set.
ConversionFactor_DefaultCalibration(cal, h, reply, code) ==
    LET m == microstep(h, reply, code)
        c == IF IsNone(cal) THEN Whole(1) ELSE cal
    IN  IF m.exc # "none" THEN m
        ELSE IF m.val.n \notin DOMAIN STEPS_PER_TURN
             THEN Raise("KeyError", m.sent)
             ELSE Ok(Over(Whole(STEPS_PER_TURN[m.val.n]), c), m.sent)

\* _conversion_factor that takes the drive's default resolution (code 3) for
\* a code the table does not have.
ConversionFactor_DefaultResolution(cal, h, reply, code) ==
    IF IsNone(cal) THEN Raise("Set calibration first", <<>>)
    ELSE LET m == microstep(h, reply, code)
             k == IF m.val.n \in DOMAIN STEPS_PER_TURN THEN m.val.n ELSE 3
         IN  IF m.exc # "none" THEN m
             ELSE Ok(Over(Whole(STEPS_PER_TURN[k]), cal), m.sent)

\* _conversion_factor: steps per user unit, for the calibration cal and the
\* microstep code the device reports now.
ConversionFactor(cal, h, reply, code) ==
    IF IsNone(cal) THEN Raise("Set calibration first", <<>>)
    ELSE LET m == microstep(h, reply, code)
         IN  IF m.exc # "none" THEN m
             ELSE IF m.val.n \notin DOMAIN STEPS_PER_TURN
                  THEN Raise("KeyError", m.sent)
                  ELSE Ok(Over(Whole(STEPS_PER_TURN[m.val.n]), cal), m.sent)

\* _step_to_unit that multiplies by the factor.
StepToUnit_Multiplying(step, cal, h, reply, code) ==
    LET f == ConversionFactor(cal, h, reply, code)
    IN  IF f.exc # "none" THEN f
        ELSE Ok(Times(step, f.val), f.sent)

\* _step_to_unit: float(step) / self._conversion_factor
StepToUnit(step, cal, h, reply, code) ==
    LET f == ConversionFactor(cal, h, reply, code)
    IN  IF f.exc # "none" THEN f
        ELSE Ok(Over(step, f.val), f.sent)

\* _unit_to_step without round(): int() cuts the fraction off.
UnitToStep_Truncating(value, cal, h, reply, code) ==
    LET f == ConversionFactor(cal, h, reply, code)
    IN  IF f.exc # "none" THEN f
        ELSE LET x == Times(value, f.val)
                 t == IF x.n >= 0 THEN x.n \div x.d ELSE -((-x.n) \div x.d)
             IN  Ok(Whole(t), f.sent)

\* _unit_to_step: int(round(value * self._conversion_factor))
UnitToStep(value, cal, h, reply, code) ==
    LET f == ConversionFactor(cal, h, reply, code)
    IN  IF f.exc # "none" THEN f
        ELSE LET x == Times(value, f.val)
             IN  Ok(Whole(round(x.n, x.d)), f.sent)

\* get_position / _get_future_movement_value: ask the device for a step
\* count with cmd ('SP' / 'DI'), then convert it.
GetInUnits(cmd, steps, cal, h, rs, code) ==
    LET q == query(h, <<cmd>>, rs[1], Whole(steps))
    IN  IF q.exc # "none" THEN q
        ELSE LET c == StepToUnit(q.val, cal, h, rs[2], code)
             IN  [c EXCEPT !.sent = q.sent \o c.sent]

\* _set_future_movement_value: convert, then send 'DI<steps>'.
SetFutureMovementValue(value, cal, h, rs, code) ==
    LET s == UnitToStep(value, cal, h, rs[1], code)
    IN  IF s.exc # "none" THEN s
        ELSE LET q == query(h, <<"DI", s.val.n>>, rs[2], NONE)
             IN  [q EXCEPT !.sent = s.sent \o q.sent]

\* A move that feeds first and sets the future movement value afterwards.
Move_FeedFirst(cmd, value, cal, h, rs, code) ==
    LET q == query(h, <<cmd>>, rs[3], NONE)
        s == SetFutureMovementValue(value, cal, h, rs, code)
    IN  IF q.exc # "none" THEN [exc |-> q.exc, val |-> NONE, sent |-> q.sent]
        ELSE [exc |-> s.exc, val |-> NONE, sent |-> q.sent \o s.sent]

\* move_relative / move_absolute: set the future movement value, then feed
\* with cmd ('FL' / 'FP').
Move(cmd, value, cal, h, rs, code) ==
    LET s == SetFutureMovementValue(value, cal, h, rs, code)
    IN  IF s.exc # "none" THEN s
        ELSE LET q == query(h, <<cmd>>, rs[3], NONE)
             IN  [exc |-> q.exc, val |-> NONE, sent |-> s.sent \o q.sent]

\* Calibrations (units per motor turn) a caller sets: 1 and 360/96.
Calibrations == {[n |-> 1, d |-> 1], [n |-> 15, d |-> 4]}

\* Largest numerator of the values in user units a caller passes.
MaxValue == 1
\* Largest step count given to the conversion or reported by the device.
MaxSteps == 1

\* Values in user units: whole ones, thirds, and 400ths (half a full step
\* at resolution code 0 with calibration 1, a tie for round()).
Values == {Rat(n, d) : n \in -MaxValue..MaxValue, d \in {1, 3, 400}}
StepCounts == -MaxSteps..MaxSteps

\* A call makes up to three queries; at most one of them times out, and the
\* call ends there.
ReplySeqs ==
    {[i \in 1..3 |-> IF i = k THEN "timeout" ELSE "reply"] : k \in 0..3}

NoOut ==
    [op |-> "none", arg |-> NONE, exc |-> "none", val |-> NONE, sent |-> <<>>,
     chained |-> FALSE, origin |-> NONE]

\* What a finished call leaves for inspection: the call, its outcome, and
\* whether its argument was the value the opposite conversion returned just
\* before it (with origin, that conversion's argument).  The record is of
\* the last call made since the calibration, the drive's resolution or the
\* transport last changed.
Outcome(op, arg, r) ==
    LET ch == /\ out.exc = "none"
              /\ out.val = arg
              /\ out.op \in {"_unit_to_step", "_step_to_unit"} \ {op}
    IN  [op |-> op, arg |-> arg, exc |-> r.exc, val |-> r.val, sent |-> r.sent,
         chained |-> ch, origin |-> IF ch THEN out.arg ELSE NONE]

set_calibration ==
    /\ \E c \in Calibrations : calib' = c
    /\ out' = NoOut
    /\ UNCHANGED <<cls, handle, hist, probe, devMR, scope, data, trace, stale, wire, call, ctrl>>

\* The drive's resolution changes (the microstep setter, or the vendor's
\* configurator).
DeviceMicrostep ==
    /\ \E c \in MicrostepCodes : devMR' = c
    /\ out' = NoOut
    /\ UNCHANGED <<cls, handle, hist, probe, calib, scope, data, trace, stale, wire, call, ctrl>>

\* initialize() of an instance that holds no open transport.
StfInitialize ==
    /\ handle # "open"
    /\ handle' = initialize(cls, handle, "reply").handle
    /\ out' = NoOut
    /\ UNCHANGED <<cls, hist, probe, calib, devMR, scope, data, trace, stale, wire, call, ctrl>>

StfClose ==
    /\ handle' = STF03D_close(handle).handle
    /\ out' = NoOut
    /\ UNCHANGED <<cls, hist, probe, calib, devMR, scope, data, trace, stale, wire, call, ctrl>>

unit_to_step ==
    /\ \E v \in Values \cup (IF out.op = "_step_to_unit" /\ out.exc = "none"
                             THEN {out.val} ELSE {}),
          rs \in ReplySeqs :
         out' = Outcome("_unit_to_step", v,
                        UnitToStep(v, calib, handle, rs[1], devMR))
    /\ UNCHANGED <<cls, handle, hist, probe, calib, devMR, scope, data, trace, stale, wire, call, ctrl>>

step_to_unit ==
    /\ \E n \in StepCounts \cup (IF out.op = "_unit_to_step" /\ out.exc = "none"
                                 THEN {out.val.n} ELSE {}),
          rs \in ReplySeqs :
         out' = Outcome("_step_to_unit", Whole(n),
                        StepToUnit(Whole(n), calib, handle, rs[1], devMR))
    /\ UNCHANGED <<cls, handle, hist, probe, calib, devMR, scope, data, trace, stale, wire, call, ctrl>>

get_position ==
    /\ \E n \in StepCounts, rs \in ReplySeqs :
         out' = Outcome("get_position", NONE,
                        GetInUnits("SP", n, calib, handle, rs, devMR))
    /\ UNCHANGED <<cls, handle, hist, probe, calib, devMR, scope, data, trace, stale, wire, call, ctrl>>

get_future_movement_value ==
    /\ \E n \in StepCounts, rs \in ReplySeqs :
         out' = Outcome("_get_future_movement_value", NONE,
                        GetInUnits("DI", n, calib, handle, rs, devMR))
    /\ UNCHANGED <<cls, handle, hist, probe, calib, devMR, scope, data, trace, stale, wire, call, ctrl>>

move_relative ==
    /\ \E v \in Values, rs \in ReplySeqs :
         out' = Outcome("move_relative", v,
                        Move("FL", v, calib, handle, rs, devMR))
    /\ UNCHANGED <<cls, handle, hist, probe, calib, devMR, scope, data, trace, stale, wire, call, ctrl>>

move_absolute ==
    /\ \E v \in Values, rs \in ReplySeqs :
         out' = Outcome("move_absolute", v,
                        Move("FP", v, calib, handle, rs, devMR))
    /\ UNCHANGED <<cls, handle, hist, probe, calib, devMR, scope, data, trace, stale, wire, call, ctrl>>

(***************************************************************************)
(* Oscilloscopes and spectrum analyzer: preamble and waveform read-out     *)
(***************************************************************************)
\* The classes with a get_trace.
TraceDrivers == {"KeysightOscilloscope", "RSOscilloscope", "FPC1000"}

\* Python floats are binary floating point, rounded to the nearest value (a
\* tie to the even significand).  The significand has Precision bits here
\* (53 in CPython).
Precision == 8

\* Most points of a waveform record.
MaxPoints == 2

\* The exponent e of the positive fraction n/d: 2^(Precision-1) <= n/d / 2^e
\* < 2^Precision.
RECURSIVE Exponent(_, _)
Exponent(n, d) ==
    IF n >= d * 2^Precision THEN Exponent(n, 2 * d) + 1
    ELSE IF n < d * 2^(Precision - 1) THEN Exponent(2 * n, d) - 1
    ELSE 0

\* The nearest Precision-bit float to the fraction x.
fl(x) ==
    IF x.n = 0 THEN Whole(0)
    ELSE LET s == IF x.n < 0 THEN -1 ELSE 1
             e == Exponent(Abs(x.n), x.d)
         IN  IF e >= 0
             THEN Whole(s * round(Abs(x.n), x.d * 2^e) * 2^e)
             ELSE Rat(s * round(Abs(x.n) * 2^(-e), x.d), 2^(-e))

\* Float arithmetic: the exact result, rounded.
FAdd(a, b) == fl(Plus(a, b))
FSub(a, b) == fl(Minus(a, b))
FMul(a, b) == fl(Times(a, b))
FDiv(a, b) == fl(Over(a, b))

\* math.ceil of a fraction.
Ceil(x) == -((-x.n) \div x.d)

\* A field of a header reply is a text: of an integer ("+3"), of a decimal
\* number ("+2.0E-1"), or neither ("", "abc").
IntText(k) == [kind |-> "int", v |-> Whole(k)]
DecimalText(x) == [kind |-> "decimal", v |-> x]
Garbled == [kind |-> "bad", v |-> NONE]

\* int(text) and float(text); NONE stands for the ValueError they raise.
Cast(type, t) ==
    IF type = "int"
    THEN IF t.kind = "int" THEN t.v ELSE NONE
    ELSE IF t.kind = "bad" THEN NONE ELSE fl(t.v)

KeysightPREAMBLE_TYPES ==
    <<"int", "int", "int", "int", "float", "float", "int", "float", "float", "int">>
RSPREAMBLE_TYPES == <<"float", "float", "int", "int">>
PREAMBLE_TYPES(c) ==
    IF c = "KeysightOscilloscope" THEN KeysightPREAMBLE_TYPES ELSE RSPREAMBLE_TYPES

\* Positions of the fields in the Keysight and the R&S Preamble.
KPoints == 3
KXIncrement == 5
KXOrigin == 6
KYIncrement == 8
KYOrigin == 9
KYReference == 10
RXStart == 1
RXStop == 2
RPoints == 3

\* The command that asks for the header.
HeaderQuery(c) ==
    IF c = "KeysightOscilloscope" THEN <<":WAVeform:SOURce", ":WAVeform:PREamble?">>
    ELSE <<"CHANnel:DATA:HEADer?">>

Min(a, b) == IF a < b THEN a ELSE b

\* get_preamble that fills a field it cannot get with 0.
GetPreamble_Defaulting(c, reply) ==
    LET types == PREAMBLE_TYPES(c)
        cast(i) == IF i > Len(reply) THEN NONE ELSE Cast(types[i], reply[i])
    IN  [exc |-> "none",
         preamble |-> [i \in 1..Len(types) |->
                          IF IsNone(cast(i)) THEN Whole(0) ELSE cast(i)],
         sent |-> HeaderQuery(c)]

\* get_preamble: map() casts field after field for as long as both the
\* types and the reply last (the first failing cast raises ValueError);
\* Preamble(*parameters) then raises TypeError when fields are missing.
GetPreamble(c, reply) ==
    LET types == PREAMBLE_TYPES(c)
        n == Min(Len(types), Len(reply))
        parameters == [i \in 1..n |-> Cast(types[i], reply[i])]
    IN  IF \E i \in 1..n : IsNone(parameters[i])
        THEN [exc |-> "ValueError", preamble |-> <<>>, sent |-> HeaderQuery(c)]
        ELSE IF n < Len(types)
        THEN [exc |-> "TypeError", preamble |-> <<>>, sent |-> HeaderQuery(c)]
        ELSE [exc |-> "none", preamble |-> parameters, sent |-> HeaderQuery(c)]

\* _bytes_to_voltage with y_origin and y_reference taken for each other.
BytesToVoltage_SwappedOffsets(bytes, preamble) ==
    [i \in 1..Len(bytes) |->
        FAdd(FMul(FSub(Whole(bytes[i]), preamble[KYOrigin]), preamble[KYIncrement]),
             preamble[KYReference])]

\* _bytes_to_voltage:
\* [(val - y_reference) * y_increment + y_origin for val in data]
BytesToVoltage(bytes, preamble) ==
    [i \in 1..Len(bytes) |->
        FAdd(FMul(Whole(bytes[i] - preamble[KYReference].n), preamble[KYIncrement]),
             preamble[KYOrigin])]

\* np.arange(start, stop, step), step # 0: ceil((stop - start) / step)
\* entries; the first is start, the second start + step, entry i is
\* start + i * delta with delta the difference of the first two.
arange(start, stop, step) ==
    LET length == Ceil(FDiv(FSub(stop, start), step))
        next == FAdd(start, step)
        delta == FSub(next, start)
    IN  [i \in 1..length |->
            IF i = 1 THEN start
            ELSE IF i = 2 THEN next
            ELSE FAdd(start, FMul(Whole(i - 1), delta))]

\* np.linspace(start, stop, num), num >= 0: num entries, start + i * step
\* with step = (stop - start) / (num - 1); the last one is stop.
linspace(start, stop, num) ==
    LET step == FDiv(FSub(stop, start), Whole(num - 1))
    IN  [i \in 1..num |->
            IF num = 1 THEN start
            ELSE IF i = num THEN stop
            ELSE FAdd(FMul(Whole(i - 1), step), start)]

TraceResult(e, p, t, v, s) ==
    [exc |-> e, preamble |-> p, time |-> t, voltage |-> v, sent |-> s]

\* keysight.Oscilloscope.get_trace
KeysightGetTrace(reply, bytes) ==
    LET prepare == <<":ACQuire:TYPE NORMal", ":WAVeform:SOURce",
                     ":WAVeform:POINts:MODE NORMal", ":WAVeform:FORMat BYTE">>
        p == GetPreamble("KeysightOscilloscope", reply)
        preamble == p.preamble
        voltage == BytesToVoltage(bytes, preamble)
        x_min == preamble[KXOrigin]
        x_max == FAdd(x_min, FMul(preamble[KPoints], preamble[KXIncrement]))
        time == arange(x_min, x_max, preamble[KXIncrement])
    IN  IF p.exc # "none"
        THEN TraceResult(p.exc, <<>>, <<>>, <<>>, prepare \o p.sent)
        ELSE TraceResult("none", preamble, time, voltage,
                         prepare \o p.sent \o <<":WAVeform:DATA?">>)

\* np.asarray(text.split(',')).astype(float) gives one float per sample; the
\* empty reply splits into one empty text, which is no float (ValueError).
\* rohde_schwarz.Oscilloscope.get_trace
RSGetTrace(reply, samples) ==
    LET asked == <<"CHANnel:SINGle", "FORMat ASC; CHANnel:DATA?">>
        voltage == [i \in 1..Len(samples) |-> fl(Whole(samples[i]))]
        p == GetPreamble("RSOscilloscope", reply)
        preamble == p.preamble
        time == linspace(preamble[RXStart], preamble[RXStop], preamble[RPoints].n)
    IN  IF samples = <<>>
        THEN TraceResult("ValueError", <<>>, <<>>, <<>>, asked)
        ELSE IF p.exc # "none"
        THEN TraceResult(p.exc, <<>>, <<>>, <<>>, asked \o p.sent)
        ELSE IF preamble[RPoints].n < 0
        THEN TraceResult("ValueError", <<>>, <<>>, <<>>, asked \o p.sent)
        ELSE TraceResult("none", preamble, time, voltage, asked \o p.sent)

\* rohde_schwarz.FPC1000.get_trace
FPCGetTrace(x_start, x_stop, samples) ==
    LET y_data == [i \in 1..Len(samples) |-> fl(Whole(samples[i]))]
        points == Len(y_data)
        x_data == linspace(Cast("float", x_start), Cast("float", x_stop), points)
    IN  IF samples = <<>>
        THEN TraceResult("ValueError", <<>>, <<>>, <<>>, <<"TRACe:DATA? TRACE1">>)
        ELSE TraceResult("none", <<>>, x_data, y_data,
                         <<"TRACe:DATA? TRACE1", "FREQ:STAR?", "FREQ:STOP?">>)

\* What the instrument is set to: the time base (x_origin, x_increment),
\* the vertical calibration and the point count it reports.
TimeBases == {<<Whole(0), Rat(1, 4)>>, <<Whole(1), Rat(1, 10)>>}
Verticals == {<<Whole(1), Whole(0), 128>>, <<Rat(1, 2), Whole(1), 127>>}
\* Records of up to MaxPoints sample bytes, 128 and 228 in turn, starting
\* with either.
Records ==
    {[i \in 1..n |-> IF (i + k) % 2 = 1 THEN 128 ELSE 228] :
        n \in 0..MaxPoints, k \in 0..1}

\* The header the instrument sends for its settings s.
Header(c, s) ==
    IF c = "KeysightOscilloscope"
    THEN <<IntText(0), IntText(0), IntText(s.points), IntText(1),
           DecimalText(s.x_increment), DecimalText(s.x_origin), IntText(0),
           DecimalText(s.y_increment), DecimalText(s.y_origin),
           IntText(s.y_reference)>>
    ELSE <<DecimalText(s.x_origin),
           DecimalText(Plus(s.x_origin, Times(Whole(s.points), s.x_increment))),
           IntText(s.points), IntText(1)>>

\* What can happen to the header on its way: nothing, it is cut after k
\* fields, it arrives empty, field k is garbled, field k comes as a decimal
\* number, or a field follows it.
Damages(c) ==
    LET arity == Len(PREAMBLE_TYPES(c))
    IN  {[kind |-> "intact", at |-> 0], [kind |-> "empty", at |-> 0],
         [kind |-> "extra", at |-> 0]}
        \cup {[kind |-> k, at |-> i] : k \in {"garbled", "decimal"}, i \in 1..arity}
        \cup {[kind |-> "cut", at |-> i] : i \in 1..(arity - 1)}

Received(h, dmg) ==
    CASE dmg.kind = "intact"  -> h
      [] dmg.kind = "empty"   -> <<Garbled>>
      [] dmg.kind = "extra"   -> Append(h, IntText(0))
      [] dmg.kind = "cut"     -> SubSeq(h, 1, dmg.at)
      [] dmg.kind = "garbled" -> [h EXCEPT ![dmg.at] = Garbled]
      [] OTHER                -> [h EXCEPT ![dmg.at].kind = "decimal"]

NoScope ==
    [points |-> 0, x_origin |-> Whole(0), x_increment |-> Rat(1, 4),
     y_increment |-> Whole(1), y_origin |-> Whole(0), y_reference |-> 128]

NoTrace ==
    [op |-> "none", reply |-> <<>>, exc |-> "none", preamble |-> <<>>,
     time |-> <<>>, voltage |-> <<>>, sent |-> <<>>]

Traced(op, reply, r) ==
    [op |-> op, reply |-> reply, exc |-> r.exc, preamble |-> r.preamble,
     time |-> r.time, voltage |-> r.voltage, sent |-> r.sent]

lifeVars == <<cls, handle, hist, probe, calib, devMR, out, stale, wire, call, ctrl>>

SetTimebase ==
    /\ \E tb \in TimeBases :
         scope' = [scope EXCEPT !.x_origin = tb[1], !.x_increment = tb[2]]
    /\ trace' = NoTrace
    /\ UNCHANGED <<lifeVars, data>>

SetVertical ==
    /\ \E v \in Verticals :
         scope' = [scope EXCEPT !.y_increment = v[1], !.y_origin = v[2],
                                !.y_reference = v[3]]
    /\ trace' = NoTrace
    /\ UNCHANGED <<lifeVars, data>>

\* The instrument takes a new record.
Acquire ==
    /\ \E d \in Records : data' = d
    /\ trace' = NoTrace
    /\ UNCHANGED <<lifeVars, scope>>

\* The point count the instrument reports changes.
SetPoints ==
    /\ \E p \in 0..MaxPoints : scope' = [scope EXCEPT !.points = p]
    /\ trace' = NoTrace
    /\ UNCHANGED <<lifeVars, data>>

get_preamble ==
    /\ cls \in {"KeysightOscilloscope", "RSOscilloscope"}
    /\ \E dmg \in Damages(cls) :
         LET reply == Received(Header(cls, scope), dmg)
             p == GetPreamble(cls, reply)
         IN  trace' = Traced("get_preamble", reply,
                             TraceResult(p.exc, p.preamble, <<>>, <<>>, p.sent))
    /\ UNCHANGED <<lifeVars, scope, data>>

bytes_to_voltage ==
    /\ cls = "KeysightOscilloscope"
    /\ LET reply == Header(cls, scope)
           preamble == GetPreamble(cls, reply).preamble
       IN  trace' = Traced("_bytes_to_voltage", reply,
                           TraceResult("none", preamble, <<>>,
                                       BytesToVoltage(data, preamble), <<>>))
    /\ UNCHANGED <<lifeVars, scope, data>>

get_trace ==
    /\ IF cls = "FPC1000"
       THEN LET h == Header(cls, scope)
            IN  trace' = Traced("get_trace", <<>>,
                                FPCGetTrace(h[RXStart], h[RXStop], data))
       ELSE \E dmg \in Damages(cls) :
              LET reply == Received(Header(cls, scope), dmg)
              IN  trace' = Traced("get_trace", reply,
                                  IF cls = "KeysightOscilloscope"
                                  THEN KeysightGetTrace(reply, data)
                                  ELSE RSGetTrace(reply, data))
    /\ UNCHANGED <<lifeVars, scope, data>>

(***************************************************************************)
(* Socket drivers STF03D and DG645: write() and query() on the transport   *)
(***************************************************************************)
SocketDrivers == {"STF03D", "DG645"}

\* Most query() calls, and most write() calls, made on one instance.
MaxQueries == 3

\* query() that sends the command once more when the receive timed out.
QueryIO_Retrying(h, reply) ==
    LET e == SocketUse(h, reply)
    IN  [sent |-> IF h # "open" THEN 0 ELSE IF reply = "timeout" THEN 2 ELSE 1,
         received |-> IF h # "open" THEN 0 ELSE IF reply = "timeout" THEN 2 ELSE 1,
         exc |-> e]

\* query(cmd): write(cmd), which sends on self._device (None has no send,
\* a closed socket refuses), then one blocking recv, whose timeout is not
\* caught.
QueryIO(h, reply) ==
    LET e == SocketUse(h, reply)
    IN  [sent |-> IF h = "open" THEN 1 ELSE 0,
         received |-> IF h = "open" THEN 1 ELSE 0,
         exc |-> e]

\* What recv() can do: with a reply waiting in the socket's buffer it
\* returns at once, else the reply comes in time or the timeout strikes.
RecvOutcomes(buffer) == IF buffer # <<>> THEN {"reply"} ELSE TransportReplies

\* The reply recv() hands to query(cmd): the oldest one waiting in the
\* buffer, whichever command it answers, else the reply to cmd.
Recv(buffer, cmd) == IF buffer # <<>> THEN Head(buffer) ELSE cmd

\* The account of the transport after a query(cmd) with the outcome io.  The
\* reply to cmd is still under way when the receive timed out or returned an
\* older reply.
Queried(w, h, io, cmd) ==
    LET served == h = "open"
        answered == served /\ io.exc = "none"
    IN  [queries |-> w.queries + 1,
         served |-> w.served + (IF served THEN 1 ELSE 0),
         sends |-> w.sends + io.sent,
         recvs |-> w.recvs + io.received,
         writes |-> w.writes,
         pending |-> IF served /\ (io.exc = "timeout" \/ w.buffer # <<>>)
                     THEN Append(w.pending, cmd) ELSE w.pending,
         buffer |-> IF answered /\ w.buffer # <<>> THEN Tail(w.buffer)
                    ELSE w.buffer,
         last |-> [op |-> "query", sent |-> io.sent, received |-> io.received,
                   exc |-> io.exc, cmd |-> cmd,
                   answer |-> IF answered THEN Recv(w.buffer, cmd)
                              ELSE "none"]]

\* The socket is closed: what waits in its buffer is gone; replies under way
\* to a TCP connection are dropped, those to the UDP port still travel.
Closed(w, c, h, after) ==
    IF h # "open" \/ after = "open" THEN w
    ELSE [w EXCEPT !.buffer = <<>>,
                   !.pending = IF c = "DG645" THEN <<>> ELSE @]

\* Commands a caller queries.
Commands(c) == IF c = "STF03D" THEN {"MV", "MR"} ELSE {"*IDN?", "LAMP?"}

\* write(cmd): one send and no receive.
Written(w, h) ==
    LET n == IF h = "open" THEN 1 ELSE 0
    IN  [w EXCEPT !.sends = @ + n, !.writes = @ + n,
                  !.last = [op |-> "write", sent |-> n, received |-> 0,
                            exc |-> SocketUse(h, "reply"), cmd |-> "none",
                            answer |-> "none"]]

\* Whether initialize() / close() of the class print self.idn, a query.
QueriesIdn(c) == c = "DG645"

SockQuery ==
    /\ wire.queries < MaxQueries
    /\ \E cmd \in Commands(cls), reply \in RecvOutcomes(wire.buffer) :
         wire' = Queried(wire, handle, QueryIO(handle, reply), cmd)
    /\ UNCHANGED <<cls, handle, hist, probe, calib, devMR, out, scope, data,
                   trace, stale, call, ctrl>>

SockWrite ==
    /\ wire.writes < MaxQueries
    /\ wire' = Written(wire, handle)
    /\ UNCHANGED <<cls, handle, hist, probe, calib, devMR, out, scope, data,
                   trace, stale, call, ctrl>>

\* initialize() of an instance that holds no open transport: a new socket;
\* DG645 then queries '*IDN?' on it.
SockInitialize ==
    /\ handle # "open"
    /\ QueriesIdn(cls) => wire.queries < MaxQueries
    /\ \E reply \in TransportReplies :
         /\ handle' = initialize(cls, handle, reply).handle
         /\ wire' = IF QueriesIdn(cls)
                    THEN Queried(wire, "open", QueryIO("open", reply), "*IDN?")
                    ELSE wire
    /\ UNCHANGED <<cls, hist, probe, calib, devMR, out, scope, data, trace,
                   stale, call, ctrl>>

\* close(): DG645 queries '*IDN?' first, then both close the socket.
SockClose ==
    /\ QueriesIdn(cls) => wire.queries < MaxQueries
    /\ \E reply \in RecvOutcomes(wire.buffer) :
         /\ handle' = close(cls, handle, reply, "none").handle
         /\ wire' = Closed(IF QueriesIdn(cls)
                           THEN Queried(wire, handle, QueryIO(handle, reply),
                                        "*IDN?")
                           ELSE wire, cls, handle, handle')
    /\ UNCHANGED <<cls, hist, probe, calib, devMR, out, scope, data, trace,
                   stale, call, ctrl>>

\* A reply that missed its receive reaches the socket, or is lost on the
\* way (UDP) or finds no open socket.
Deliver ==
    /\ wire.pending # <<>>
    /\ \E fate \in IF cls = "STF03D" THEN {"arrives", "lost"} ELSE {"arrives"} :
         wire' = [wire EXCEPT
                     !.pending = Tail(@),
                     !.buffer = IF handle = "open" /\ fate = "arrives"
                                THEN Append(@, Head(wire.pending)) ELSE @]
    /\ UNCHANGED <<cls, handle, hist, probe, calib, devMR, out, scope, data,
                   trace, stale, call, ctrl>>

(***************************************************************************)
(* Getters and constructors: one call, its argument and its outcome        *)
(***************************************************************************)
Returned(v) == [exc |-> "none", val |-> v]

Raised(e) == [exc |-> e, val |-> <<>>]

Called(op, arg, r) == [op |-> op, arg |-> arg, exc |-> r.exc, val |-> r.val]

\* What a getter or a constructor leaves alone.
callVars ==
    <<cls, hist, probe, calib, devMR, out, scope, data, trace, stale, wire,
      ctrl>>

\* The alarm and status tables, in the order the dictionaries are written.
ERROR_CODES ==
    << <<0, "No alarms">>, <<1, "Position Limit">>, <<2, "CCW Limit">>,
       <<4, "CW Limit">>, <<8, "Over Temp">>, <<16, "Internal Voltage">>,
       <<32, "Over Voltage">>, <<64, "Under Voltage">>,
       <<128, "Over Current">>, <<256, "Open Motor Winding">>,
       <<512, "Bad Encoder">>, <<1024, "Comm Error">>, <<2048, "Bad Flash">>,
       <<4096, "No Move">>, <<8192, "(not used)">>,
       <<16384, "Blank Q Segment">>, <<32768, "(not used)">> >>

STATUS_CODES ==
    << <<0, "Motor disabled">>, <<1, "Motor enabled and in position">>,
       <<2, "Sampling">>, <<4, "Drive Fault">>, <<8, "In Position">>,
       <<16, "Moving">>, <<32, "Jogging">>, <<64, "Stopping">>,
       <<128, "Waiting (for an input)">>, <<256, "Saving">>,
       <<512, "Alarm present">>, <<1024, "Homing">>,
       <<2048, "Waiting (for time)">>, <<4096, "Wizard running">>,
       <<8192, "Checking encoder">>, <<16384, "Q Program is running">>,
       <<32768, "Initializing">> >>

Keys(table) == {table[i][1] : i \in 1..Len(table)}

\* table[key] of a dictionary.
Lookup(table, key) ==
    table[CHOOSE i \in 1..Len(table) : table[i][1] = key][2]

\* a & b on non-negative integers.
RECURSIVE BitAnd(_, _)
BitAnd(a, b) ==
    IF a = 0 \/ b = 0 THEN 0
    ELSE (a % 2) * (b % 2) + 2 * BitAnd(a \div 2, b \div 2)

\* The hexadecimal digits the drive writes after 'AL=' / 'SC=': four digits,
\* more when the word needs them.
RECURSIVE HexDigits(_, _)
HexDigits(w, width) ==
    IF w < 16 /\ width <= 1 THEN <<w>>
    ELSE Append(HexDigits(w \div 16, width - 1), w % 16)

\* int(respons, 16)
RECURSIVE int16(_)
int16(text) ==
    IF text = <<>> THEN 0
    ELSE 16 * int16(SubSeq(text, 1, Len(text) - 1)) + text[Len(text)]

\* A translation that stops at the first key the word has a bit of.
Translate_FirstHit(table, word) ==
    IF word = 0 THEN <<Lookup(table, word)>>
    ELSE LET hits == SelectSeq(table, LAMBDA e : BitAnd(e[1], word) # 0)
         IN  [i \in 1..Min(1, Len(hits)) |-> hits[i][2]]

\* The body shared by get_alarm and get_status: the message of key 0 for the
\* word 0, else the messages of the keys that have a bit in common with it.
Translate(table, word) ==
    IF word = 0 THEN <<Lookup(table, word)>>
    ELSE LET hits == SelectSeq(table, LAMBDA e : BitAnd(e[1], word) # 0)
         IN  [i \in 1..Len(hits) |-> hits[i][2]]

get_alarm(h, reply, text) ==
    LET e == SocketUse(h, reply)
    IN  IF e # "none" THEN Raised(e)
        ELSE Returned(Translate(ERROR_CODES, int16(text)))

get_status(h, reply, text) ==
    LET e == SocketUse(h, reply)
    IN  IF e # "none" THEN Raised(e)
        ELSE Returned(Translate(STATUS_CODES, int16(text)))

\* is_moving: bit 0x0010 of the status word.
is_moving(h, reply, text) ==
    LET e == SocketUse(h, reply)
    IN  IF e # "none" THEN Raised(e)
        ELSE Returned(BitAnd(16, int16(text)) # 0)

\* Highest bit a reported word may have set; the tables end at bit 15.
MaxBit == 16

Pow2(i) == 2 ^ i

\* Words the drive may report: no bit set, one bit, one bit more than bit 15
\* or than the highest bit, the words of the mock drive (0x0100, 0x020C), and
\* all sixteen bits.
Words ==
    {0} \cup {Pow2(i) : i \in 0..MaxBit}
        \cup {Pow2(i) + Pow2(j) : i \in 0..MaxBit, j \in {15, MaxBit}}
        \cup {256, 524, 65535}

\* Addresses are sequences of pieces: "1" a digit, "." a dot, "x" any other
\* character but a newline, "\n" a newline, and the literal pieces "USB" and
\* "::INSTR".
RECURSIVE Digits(_, _)
Digits(a, i) == IF i <= Len(a) /\ a[i] = "1" THEN Digits(a, i + 1) ELSE i

\* \d+ at position i: the position after the digits, 0 when there is none.
DigitGroup(a, i) ==
    IF i = 0 \/ i > Len(a) \/ a[i] # "1" THEN 0 ELSE Digits(a, i)

\* \. at position i.
Dot(a, i) == IF i = 0 \/ i > Len(a) \/ a[i] # "." THEN 0 ELSE i + 1

\* re.match(r'\d+\.\d+\.\d+\.\d+', a): the position after the match at the
\* start of a, 0 when there is no match.
MatchIP(a) ==
    DigitGroup(a, Dot(a, DigitGroup(a, Dot(a, DigitGroup(a,
        Dot(a, DigitGroup(a, 1)))))))

\* '$' matches at the end of the string and before a newline that ends it.
AtEnd(a, i) ==
    \/ i = Len(a) + 1
    \/ i = Len(a) /\ a[i] = "\n"

\* re.match(r'^\d+\.\d+\.\d+\.\d+$', a)
MatchWholeIP(a) == MatchIP(a) # 0 /\ AtEnd(a, MatchIP(a))

\* re.match(r'^USB.+::INSTR$', a)
MatchUSB(a) ==
    /\ Len(a) >= 1 /\ a[1] = "USB"
    /\ \E e \in 4..(Len(a) + 1) :
         /\ AtEnd(a, e)
         /\ a[e - 1] = "::INSTR"
         /\ \A k \in 2..(e - 2) : a[k] # "\n"

KeysightDevice_init(a) ==
    CASE MatchWholeIP(a) -> Returned(<<"TCPIP::">> \o a \o <<"::INSTR">>)
      [] MatchUSB(a)     -> Returned(a)
      [] OTHER           -> Raised("ValueError")

RSDevice_init(a) ==
    CASE MatchIP(a) # 0 -> Returned(<<"TCPIP::">> \o a \o <<"::INSTR">>)
      [] MatchUSB(a)    -> Returned(a)
      [] OTHER          -> Raised("ValueError")

FPC1000_init(a) ==
    IF MatchIP(a) = 0 THEN Raised("ValueError") ELSE RSDevice_init(a)

\* __init__(address) of the class c; the value is self.device_address.
Construct(c, a) ==
    CASE c = "FPC1000"                -> FPC1000_init(a)
      [] BaseOf(c) = "KeysightDevice" -> KeysightDevice_init(a)
      [] BaseOf(c) = "RSDevice"       -> RSDevice_init(a)

AddressedDrivers ==
    {"Counter", "KeysightOscilloscope", "RSOscilloscope", "FPC1000"}

AddressCores ==
    { <<"1", ".", "1", ".", "1", ".", "1">>,
      <<"1", "1", ".", "1", ".", "1", ".", "1", "1">>,
      <<"1", ".", "1", ".", "1">>,
      <<"1", ".", ".", "1", ".", "1">>,
      <<"USB", "x", "::INSTR">>,
      <<"USB", "::INSTR">>,
      <<"x">>,
      <<>> }

AddressEnds == {<<>>, <<"x">>, <<"\n">>, <<".", "1">>}

Addresses ==
    {p \o c \o s : p \in {<<>>, <<"x">>}, c \in AddressCores, s \in AddressEnds}

\* Another instance of the class is constructed on the address a.
New ==
    /\ cls \in AddressedDrivers
    /\ \E a \in Addresses : call' = Called("__init__", <<a>>, Construct(cls, a))
    /\ UNCHANGED <<handle, callVars>>

\* Python values a getter returns, by type; a text is a sequence of pieces.
StrVal(s) == [type |-> "str", text |-> s, num |-> 0]

IntVal(n) == [type |-> "int", text |-> <<>>, num |-> n]

FloatVal(x) == [type |-> "float", text |-> <<>>, num |-> x]

Scalar(v) == [shape |-> "scalar", items |-> <<v>>]

Tuple(s) == [shape |-> "tuple", items |-> s]

\* Pieces of a reply text: a character c, a hexadecimal digit of value v,
\* or the decimal text of the number v.
Ch(c) == [t |-> c, v |-> 0]

Digit(v) == [t |-> "digit", v |-> v]

Decimal(v) == [t |-> "decimal", v |-> v]

\* float(text)
float(text) ==
    IF Len(text) = 1 /\ text[1].t \in {"digit", "decimal"}
    THEN Returned(text[1].v)
    ELSE Raised("ValueError")

\* int(text, 16) of a text of pieces
hex(text) ==
    IF text # <<>> /\ \A i \in 1..Len(text) : text[i].t = "digit"
    THEN Returned(int16([i \in 1..Len(text) |-> text[i].v]))
    ELSE Raised("ValueError")

\* text[from:] and text[from:to] with Python's indices
Slice(text, from, to) == SubSeq(text, from + 1, Min(to, Len(text)))

\* DG645.get_delay: the delay of the reply 'reference,delay'.
DG645_get_delay(h, reply, respons) ==
    LET e == SocketUse(h, reply)
        delay == float(Slice(respons, 2, Len(respons)))
    IN  CASE e # "none"         -> Raised(e)
          [] delay.exc # "none" -> Raised(delay.exc)
          [] OTHER              -> Returned(Scalar(FloatVal(delay.val)))

References == {0, 2}

Delays == {0, 1}

DelayReplies ==
    {<<Digit(r), Ch(","), Decimal(d)>> : r \in References, d \in Delays}

\* DG645Dummy.__init__: DG645.__init__, then self.idn = 'Dummy DG645'; idn
\* is a property of DG645 that has no setter.
ReadOnlyProperties == {"idn"}

SetAttr(name) ==
    IF name \in ReadOnlyProperties THEN "AttributeError" ELSE "none"

DG645Dummy_init ==
    LET e == SetAttr("idn")
    IN  IF e # "none" THEN Raised(e) ELSE Returned(<<>>)

\* A query on a VISA resource.
VisaUse(h, reply) ==
    CASE h = "None"   -> "AttributeError"
      [] h = "closed" -> "InvalidSession"
      [] OTHER        -> IF reply = "timeout" THEN "VisaIOError" ELSE "none"

\* SMC100.query: the reply is dev_number + command + answer.
SMC100_query(h, reply, respons) ==
    LET e == VisaUse(h, reply)
    IN  IF e # "none" THEN Raised(e)
        ELSE Returned(Slice(respons, 3, Len(respons)))

\* SMC100.position, speed and acceleration: the answer as queried.
SMC100_get(h, reply, respons) ==
    LET q == SMC100_query(h, reply, respons)
    IN  IF q.exc # "none" THEN q ELSE Returned(Scalar(StrVal(q.val)))

SMC100_error_and_controller_status(h, reply, respons) ==
    LET q == SMC100_query(h, reply, respons)
        state == hex(Slice(q.val, 4, 6))
    IN  CASE q.exc # "none"     -> q
          [] state.exc # "none" -> Raised(state.exc)
          [] OTHER -> Returned(Tuple(<<StrVal(Slice(q.val, 0, 4)),
                                       IntVal(state.val)>>))

\* SMC100Dummy: position is self.pos, 0 since __init__; speed and
\* acceleration are not defined.
SMC100Dummy_get(op) ==
    IF op = "position" THEN Returned(Scalar(IntVal(0)))
    ELSE Raised("AttributeError")

SMC100Dummy_close(h) == Ret(h, "none")

FloatGetters == {"position", "speed", "acceleration"}

Command(op) ==
    CASE op = "position"     -> <<Ch("P"), Ch("A")>>
      [] op = "speed"        -> <<Ch("V"), Ch("A")>>
      [] op = "acceleration" -> <<Ch("A"), Ch("C")>>
      [] OTHER               -> <<Ch("T"), Ch("S")>>

\* Replies of the controller number 1.
Answers == {<<Digit(0)>>, <<Decimal(4)>>}

StatusAnswers ==
    {<<Digit(0), Digit(e), Digit(0), Digit(0), Digit(s), Digit(10)>> :
        e \in {0, 1}, s \in {0, 3}}

CallDrivers ==
    {"STF03D", "DG645", "SMC100", "SMC100Dummy", "TPG362",
     "SpectrumAnalyzer"}
        \cup AddressedDrivers

\* initialize() of an instance that holds no open transport.
CallInitialize ==
    /\ handle # "open"
    /\ handle' = initialize(cls, handle, "reply").handle
    /\ call' = NoCall
    /\ UNCHANGED callVars

CallClose ==
    /\ handle' = IF cls = "SMC100Dummy" THEN SMC100Dummy_close(handle).handle
                 ELSE close(cls, handle, "reply", "none").handle
    /\ call' = NoCall
    /\ UNCHANGED callVars

GetAlarm ==
    /\ cls = "STF03D"
    /\ \E w \in Words, reply \in TransportReplies :
         call' = Called("get_alarm", <<w>>,
                        get_alarm(handle, reply, HexDigits(w, 4)))
    /\ UNCHANGED <<handle, callVars>>

GetStatus ==
    /\ cls = "STF03D"
    /\ \E w \in Words, reply \in TransportReplies :
         call' = Called("get_status", <<w>>,
                        get_status(handle, reply, HexDigits(w, 4)))
    /\ UNCHANGED <<handle, callVars>>

IsMoving ==
    /\ cls = "STF03D"
    /\ \E w \in Words, reply \in TransportReplies :
         call' = Called("is_moving", <<w>>,
                        is_moving(handle, reply, HexDigits(w, 4)))
    /\ UNCHANGED <<handle, callVars>>

GetDelay ==
    /\ cls = "DG645"
    /\ \E respons \in DelayReplies, reply \in TransportReplies :
         call' = Called("get_delay", <<respons>>,
                        DG645_get_delay(handle, reply, respons))
    /\ UNCHANGED <<handle, callVars>>

\* stanford_research_systems.DG645Dummy(addr, port) is called.
NewDummy ==
    /\ cls = "DG645"
    /\ call' = Called("DG645Dummy", <<>>, DG645Dummy_init)
    /\ UNCHANGED <<handle, callVars>>

SMC100Get ==
    /\ cls \in {"SMC100", "SMC100Dummy"}
    /\ \E op \in FloatGetters, answer \in Answers, reply \in TransportReplies :
         LET respons == <<Digit(1)>> \o Command(op) \o answer
         IN  call' = Called(op, <<respons>>,
                            IF cls = "SMC100Dummy" THEN SMC100Dummy_get(op)
                            ELSE SMC100_get(handle, reply, respons))
    /\ UNCHANGED <<handle, callVars>>

ErrorAndControllerStatus ==
    /\ cls = "SMC100"
    /\ \E answer \in StatusAnswers, reply \in TransportReplies :
         LET respons == <<Digit(1)>> \o Command("status") \o answer
         IN  call' = Called("error_and_controller_status", <<respons>>,
                 SMC100_error_and_controller_status(handle, reply, respons))
    /\ UNCHANGED <<handle, callVars>>

(***************************************************************************)
(* TPG362: command, acknowledge, enquiry                                   *)
(***************************************************************************)
TupleVal(items) == [type |-> "tuple", text |-> items, num |-> 0]

NoValue == Tuple(<<>>)

\* Outcome of a TPG362 operation: what was sent, the data read, the value.
TpgOut(exc, sent, reading, value) ==
    [exc |-> exc, val |-> [sent |-> sent, data |-> reading, value |-> value]]

\* What the gauge answers to a command.
Acknowledges == {"ACK", "NAK", "other"}

\* _send_command: NAK raises; for any other answer that is not ACK a message
\* is built and nothing is raised.
TPG362_send_command(h, reply, ack) ==
    LET e == VisaUse(h, reply)
    IN  CASE e # "none"  -> e
          [] ack = "NAK" -> "IOError"
          [] OTHER       -> "none"

\* _query(cmd): _send_command, _get_data (a query of ENQ), then a read that
\* clears the output buffer; rs are the transport's outcomes of the three.
TPG362_query(h, cmd, rs, ack, reading) ==
    LET e == TPG362_send_command(h, rs[1], ack)
        sent == IF h = "open" THEN <<cmd>> ELSE <<>>
    IN  CASE e # "none"        -> TpgOut(e, sent, <<>>, NoValue)
          [] "timeout" \in {rs[2], rs[3]} ->
                 TpgOut("VisaIOError", sent \o << <<"ENQ">> >>, <<>>, NoValue)
          [] OTHER -> TpgOut("none", sent \o << <<"ENQ">> >>, reading, NoValue)

MEASUREMENT_STATUS ==
    << <<0, "Measurement data okay">>, <<1, "Underrange">>,
       <<2, "Overrange">>, <<3, "Sensor error">>, <<4, "Sensor off">>,
       <<5, "No sensor">>, <<6, "Identification error">> >>

\* text.split(',')
RECURSIVE Split(_)
Split(text) ==
    IF \A i \in 1..Len(text) : text[i].t # ","
    THEN <<text>>
    ELSE LET k == CHOOSE i \in 1..Len(text) :
                      text[i].t = "," /\ \A j \in 1..(i - 1) : text[j].t # ","
         IN  <<SubSeq(text, 1, k - 1)>> \o Split(SubSeq(text, k + 1, Len(text)))

\* int(text)
int(text) ==
    IF Len(text) = 1 /\ text[1].t = "digit" THEN Returned(text[1].v)
    ELSE Raised("ValueError")

\* pressure_gauge that queries first and checks the gauge number afterwards.
TPG362_pressure_gauge_CheckingLate(h, gauge, rs, ack, reading) ==
    LET q == TPG362_query(h, <<"PR", gauge>>, rs, ack, reading)
    IN  IF q.exc # "none" THEN q
        ELSE TpgOut("ValueError", q.val.sent, q.val.data, NoValue)

\* pressure_gauge(gauge)
TPG362_pressure_gauge(h, gauge, rs, ack, reading) ==
    IF gauge \notin {1, 2} THEN TpgOut("ValueError", <<>>, <<>>, NoValue)
    ELSE LET q == TPG362_query(h, <<"PR", gauge>>, rs, ack, reading)
             response == Split(q.val.data)
             status_code == int(response[1])
             value == float(response[2])
             fail(e) == TpgOut(e, q.val.sent, q.val.data, NoValue)
         IN  CASE q.exc # "none"           -> q
               [] status_code.exc # "none" -> fail(status_code.exc)
               [] Len(response) < 2        -> fail("IndexError")
               [] value.exc # "none"       -> fail(value.exc)
               [] status_code.val \notin Keys(MEASUREMENT_STATUS) ->
                      fail("KeyError")
               [] OTHER ->
                      TpgOut("none", q.val.sent, q.val.data,
                             Tuple(<<FloatVal(value.val),
                                     TupleVal(<<IntVal(status_code.val),
                                                StrVal(Lookup(MEASUREMENT_STATUS,
                                                       status_code.val))>>)>>))

Gauges == 0..3

\* Data the gauge returns to the enquiry: status and pressure, a status
\* outside the table, a reply without a comma, an empty reply.
GaugeData ==
    {<<Digit(s), Ch(","), Decimal(p)>> : s \in {0, 6, 7}, p \in {2}}
        \cup {<<Digit(0)>>, <<>>}

TpgQuery ==
    /\ cls = "TPG362"
    /\ \E cmd \in {"AYT", "ERR"}, rs \in ReplySeqs, ack \in Acknowledges,
          reading \in GaugeData :
         call' = Called("_query", <<cmd, ack>>,
                        TPG362_query(handle, <<cmd>>, rs, ack, reading))
    /\ UNCHANGED <<handle, callVars>>

PressureGauge ==
    /\ cls = "TPG362"
    /\ \E gauge \in Gauges, rs \in ReplySeqs, ack \in Acknowledges,
          reading \in GaugeData :
         call' = Called("pressure_gauge", <<gauge, ack>>,
                        TPG362_pressure_gauge(handle, gauge, rs, ack, reading))
    /\ UNCHANGED <<handle, callVars>>

(***************************************************************************)
(* SMC100.wait_move_finish: poll, sleep, poll again                        *)
(***************************************************************************)
\* The controller's reply to 'TS': four error digits, two state digits.
StatusReply(state) ==
    <<Digit(1), Ch("T"), Ch("S"), Digit(0), Digit(0), Digit(0), Digit(0),
      Digit(state \div 16), Digit(state % 16)>>

\* is_moving that never sees a movement.
SMC100_is_moving_Never(h, reply, respons) ==
    LET s == SMC100_error_and_controller_status(h, reply, respons)
    IN  IF s.exc # "none" THEN s ELSE Returned(FALSE)

\* is_moving: the polled state is CTRL_STATUS['moving'].
SMC100_is_moving(h, reply, respons) ==
    LET s == SMC100_error_and_controller_status(h, reply, respons)
    IN  IF s.exc # "none" THEN s
        ELSE Returned(s.val.items[2] = IntVal(CTRL_STATUS.moving))

\* The call in progress: where it stands, the state the last poll reported
\* (0 before the first), and whether it has slept.
Wait(interval, exc, pc, polled, slept) ==
    [op |-> "wait_move_finish", arg |-> <<interval>>, exc |-> exc,
     val |-> [pc |-> pc, polled |-> polled, slept |-> slept]]

Waiting == call.op = "wait_move_finish" /\ call.val.pc \in {"test", "sleep"}

Intervals == {0, 1}

\* wait_move_finish(interval) is called.
WaitStart ==
    /\ ~Waiting
    /\ \E interval \in Intervals :
         call' = Wait(interval, "none", "test", 0, FALSE)
    /\ UNCHANGED <<handle, callVars>>

\* The loop test `while self.is_moving`: one poll of 'TS'.
Poll ==
    /\ Waiting /\ call.val.pc = "test"
    /\ \E reply \in TransportReplies :
         LET m == SMC100_is_moving(handle, reply, StatusReply(ctrl))
             w(exc, pc, polled) ==
                 Wait(call.arg[1], exc, pc, polled, call.val.slept)
         IN  call' = CASE m.exc # "none" -> w(m.exc, "raised", call.val.polled)
                       [] m.val          -> w("none", "sleep", ctrl)
                       [] OTHER          -> w("none", "done", ctrl)
    /\ UNCHANGED <<handle, callVars>>

\* The loop body: sleep(interval).
Sleep ==
    /\ Waiting /\ call.val.pc = "sleep"
    /\ call' = Wait(call.arg[1], "none", "test", call.val.polled, TRUE)
    /\ UNCHANGED <<handle, callVars>>

WaitInitialize ==
    /\ ~Waiting
    /\ handle # "open"
    /\ handle' = initialize(cls, handle, "reply").handle
    /\ call' = NoCall
    /\ UNCHANGED callVars

WaitClose ==
    /\ ~Waiting
    /\ handle' = close(cls, handle, "reply", "none").handle
    /\ call' = NoCall
    /\ UNCHANGED callVars

\* move_abs / move_rel on an open transport: the controller starts to move.
MoveAbs ==
    /\ ~Waiting
    /\ handle = "open"
    /\ ctrl # CTRL_STATUS.moving
    /\ ctrl' = CTRL_STATUS.moving
    /\ call' = NoCall
    /\ UNCHANGED <<cls, handle, hist, probe, calib, devMR, out, scope, data,
                   trace, stale, wire>>

\* The controller reaches the target, or is disabled and enabled again at
\* its front panel.
Controller ==
    /\ ctrl' = CASE ctrl = CTRL_STATUS.moving -> CTRL_STATUS.ready_from_moving
                 [] ctrl = CTRL_STATUS.ready_from_disable ->
                        CTRL_STATUS.ready_from_homing
                 [] OTHER -> CTRL_STATUS.ready_from_disable
    /\ UNCHANGED <<cls, handle, hist, probe, calib, devMR, out, scope, data,
                   trace, stale, wire, call>>

(***************************************************************************)
(* SMC100.query with a controller number; SpectrumAnalyzer.get_ana         *)
(***************************************************************************)
\* str(n): the decimal digits of a controller number.
RECURSIVE DecDigits(_)
DecDigits(n) ==
    IF n < 10 THEN <<Digit(n)>>
    ELSE Append(DecDigits(n \div 10), Digit(n % 10))

\* cmd_complete = f"{self.dev_number}{cmd}"
SMC100_command(dev_number, cmd) == DecDigits(dev_number) \o cmd

\* Controller numbers given to the constructor.
DevNumbers == {1, 2, 10, 31}

\* query(cmd) on the controller dev_number, which replies with its number,
\* the two-letter echo of the command and the answer.
SmcQuery ==
    /\ cls = "SMC100"
    /\ \E dev_number \in DevNumbers, op \in FloatGetters, answer \in Answers,
          reply \in TransportReplies :
         LET cmd == Command(op) \o <<Ch("?")>>
             respons == DecDigits(dev_number) \o Command(op) \o answer
         IN  call' = Called("query",
                            <<dev_number, cmd, answer,
                              SMC100_command(dev_number, cmd)>>,
                            SMC100_query(handle, reply, respons))
    /\ UNCHANGED <<handle, callVars>>

\* get_ana: the reply to 'ANA?' when len() of it is 3, else zeros.
SpectrumAnalyzer_get_ana(h, reply, analysis) ==
    LET e == SocketUse(h, reply)
    IN  CASE e # "none" -> Raised(e)
          [] Len(analysis) = 3 ->
                 Returned(Tuple([i \in 1..3 |-> StrVal(<<analysis[i]>>)]))
          [] OTHER -> Returned(Tuple([i \in 1..3 |-> IntVal(0)]))

\* Replies to 'ANA?', character by character: '1,2,3', '490,94,19', '1,2',
\* and nothing.
AnaReplies ==
    { <<Digit(1), Ch(","), Digit(2), Ch(","), Digit(3)>>,
      <<Digit(4), Digit(9), Digit(0), Ch(","), Digit(9), Digit(4), Ch(","),
        Digit(1), Digit(9)>>,
      <<Digit(1), Ch(","), Digit(2)>>,
      <<>> }

GetAna ==
    /\ cls = "SpectrumAnalyzer"
    /\ \E analysis \in AnaReplies, reply \in TransportReplies :
         call' = Called("get_ana", <<analysis>>,
                        SpectrumAnalyzer_get_ana(handle, reply, analysis))
    /\ UNCHANGED <<handle, callVars>>

InitLife ==
    /\ cls \in Drivers
    /\ handle = "None"
    /\ hist = <<>>
    /\ probe = NoProbe
    /\ calib = NONE
    /\ devMR = 3
    /\ out = NoOut
    /\ scope = NoScope
    /\ data = <<>>
    /\ trace = NoTrace
    /\ stale = 0
    /\ wire = NoWire
    /\ call = NoCall
    /\ ctrl = NoCtrl

Init == InitLife

\* A fresh STF03D: no transport, no calibration; the drive's resolution is
\* whatever was configured on it.
InitSTF ==
    /\ cls = "STF03D"
    /\ handle = "None"
    /\ hist = <<>>
    /\ probe = NoProbe
    /\ calib = NONE
    /\ devMR \in MicrostepCodes
    /\ out = NoOut
    /\ scope = NoScope
    /\ data = <<>>
    /\ trace = NoTrace
    /\ stale = 0
    /\ wire = NoWire
    /\ call = NoCall
    /\ ctrl = NoCtrl

NextSTF ==
    \/ set_calibration
    \/ DeviceMicrostep
    \/ StfInitialize
    \/ StfClose
    \/ unit_to_step
    \/ step_to_unit
    \/ get_position
    \/ get_future_movement_value
    \/ move_relative
    \/ move_absolute

SpecSTF == InitSTF /\ [][NextSTF]_vars

\* An initialized oscilloscope or spectrum analyzer.
InitScope ==
    /\ cls \in TraceDrivers
    /\ handle = "open"
    /\ hist = <<[op |-> "initialize", exc |-> "none"]>>
    /\ probe = NoProbe
    /\ calib = NONE
    /\ devMR = 3
    /\ out = NoOut
    /\ scope = NoScope
    /\ data = <<>>
    /\ trace = NoTrace
    /\ stale = 0
    /\ wire = NoWire
    /\ call = NoCall
    /\ ctrl = NoCtrl

NextScope ==
    \/ SetTimebase
    \/ SetVertical
    \/ Acquire
    \/ SetPoints
    \/ get_preamble
    \/ bytes_to_voltage
    \/ get_trace

SpecScope == InitScope /\ [][NextScope]_vars

\* A fresh STF03D or DG645.
InitSock ==
    /\ cls \in SocketDrivers
    /\ handle = "None"
    /\ hist = <<>>
    /\ probe = NoProbe
    /\ calib = NONE
    /\ devMR = 3
    /\ out = NoOut
    /\ scope = NoScope
    /\ data = <<>>
    /\ trace = NoTrace
    /\ stale = 0
    /\ wire = NoWire
    /\ call = NoCall
    /\ ctrl = NoCtrl

NextSock ==
    SockInitialize \/ SockClose \/ SockQuery \/ SockWrite \/ Deliver

SpecSock == InitSock /\ [][NextSock]_vars

InitCalls ==
    /\ cls \in CallDrivers
    /\ handle = "None"
    /\ hist = <<>>
    /\ probe = NoProbe
    /\ calib = NONE
    /\ devMR = 3
    /\ out = NoOut
    /\ scope = NoScope
    /\ data = <<>>
    /\ trace = NoTrace
    /\ stale = 0
    /\ wire = NoWire
    /\ call = NoCall
    /\ ctrl = NoCtrl

NextCalls ==
    \/ CallInitialize \/ CallClose
    \/ GetAlarm \/ GetStatus \/ IsMoving
    \/ New \/ NewDummy
    \/ GetDelay \/ SMC100Get \/ ErrorAndControllerStatus
    \/ TpgQuery \/ PressureGauge
    \/ SmcQuery \/ GetAna

SpecCalls == InitCalls /\ [][NextCalls]_vars


InitWait ==
    /\ cls = "SMC100"
    /\ handle = "None"
    /\ hist = <<>>
    /\ probe = NoProbe
    /\ calib = NONE
    /\ devMR = 3
    /\ out = NoOut
    /\ scope = NoScope
    /\ data = <<>>
    /\ trace = NoTrace
    /\ stale = 0
    /\ wire = NoWire
    /\ call = NoCall
    /\ ctrl = NoCtrl

NextWait ==
    \/ WaitInitialize \/ WaitClose \/ MoveAbs \/ Controller
    \/ WaitStart \/ Poll \/ Sleep

\* The calling thread runs: a poll that is due is made, a sleep ends.
SpecWait ==
    InitWait /\ [][NextWait]_vars /\ WF_vars(Poll) /\ WF_vars(Sleep)


Next == Initialize \/ Close \/ Collect \/ InterfaceTest \/ DummyTest

Spec == Init /\ [][Next]_vars

(***************************************************************************)
(* Properties of the life cycle and the interface (under Spec)             *)
(***************************************************************************)
LastCall == hist[Len(hist)]

NeverInitialized == \A i \in 1..Len(hist) : hist[i].op # "initialize"

\* The instance was initialized and closed, both without error, just before
\* the last call.
InitializedAndClosed ==
    /\ Len(hist) >= 3
    /\ hist[Len(hist) - 2] = [op |-> "initialize", exc |-> "none"]
    /\ hist[Len(hist) - 1] = [op |-> "close", exc |-> "none"]

\* C1: for every driver class, close() on an instance that was never
\* initialized, and a second close() after initialize() and close(), returns
\* without raising.
C1_CloseNeverRaises ==
    (/\ Len(hist) > 0
     /\ LastCall.op = "close"
     /\ NeverInitialized \/ InitializedAndClosed) => LastCall.exc = "none"

\* C9: every driver class the interface test checks offers initialize, close,
\* write, query and idn, and a fresh instance has a _device attribute.
C9_DriversAreDevices ==
    probe.kind = "interface" => probe.isDevice /\ probe.hasDevice

\* C10: for each device the Dummy offers every public operation of the
\* driver class under the same name.
C10_DummyOffersDriverOps ==
    probe.kind = "dummy" => probe.missing = {}

(***************************************************************************)
(* Properties of the STF03D conversions (under SpecSTF)                    *)
(***************************************************************************)
UnitAware ==
    {"move_relative", "move_absolute", "get_position",
     "_get_future_movement_value", "_unit_to_step", "_step_to_unit"}

ConvertFirst == {"move_relative", "move_absolute", "_unit_to_step", "_step_to_unit"}

TransportErrors == {"AttributeError", "OSError", "timeout"}

Uncalibrated == out.op \in UnitAware /\ IsNone(calib)

\* C2 as stated: without a calibration every unit-aware operation fails with
\* the 'Set calibration first' error and returns no converted value.
C2_AlwaysCalibrationError ==
    Uncalibrated => out.exc = "Set calibration first" /\ IsNone(out.val)

\* C2 as amended: without a calibration no unit-aware operation returns a
\* value.  The operations that convert first fail with 'Set calibration
\* first' before anything is sent; get_position and
\* _get_future_movement_value query the device first and fail with 'Set
\* calibration first' once that query is answered, with the transport's
\* error when it is not.
C2_NoValueWithoutCalibration ==
    Uncalibrated =>
        /\ out.exc # "none"
        /\ IsNone(out.val)
        /\ out.op \in ConvertFirst =>
               out.exc = "Set calibration first" /\ out.sent = <<>>
        /\ out.op \notin ConvertFirst =>
               IF handle = "open" /\ out.exc # "timeout"
               THEN out.exc = "Set calibration first" /\ Len(out.sent) = 1
               ELSE out.exc \in TransportErrors

C2_Witness ==
    /\ Uncalibrated
    /\ out.op = "get_position"
    /\ out.exc = "Set calibration first"

\* Steps per user unit for the calibration and the resolution in force.
Factor == Over(Whole(STEPS_PER_TURN[devMR]), calib)

\* x, a fraction, is at most half a unit away from the integer k.
WithinHalf(x, k) == 2 * Abs(x.n - k * x.d) <= x.d

C4_ConversionFormulas ==
    /\ (out.op = "_unit_to_step" /\ out.exc = "none") =>
          LET x == Times(out.arg, Factor)
          IN  /\ out.val.d = 1
              /\ WithinHalf(x, out.val.n)
              /\ 2 * Abs(x.n - out.val.n * x.d) = x.d => out.val.n % 2 = 0
    /\ (out.op = "_step_to_unit" /\ out.exc = "none") =>
          Times(out.val, Factor) = out.arg
    /\ (out.op = "_unit_to_step" /\ out.chained /\ out.exc = "none") =>
          out.val = out.origin

C4_Witness ==
    /\ out.op = "_unit_to_step" /\ out.chained /\ out.exc = "none"
    /\ out.origin.n # 0
    /\ calib = [n |-> 15, d |-> 4]

\* A unit-aware call on a calibrated, open drive all of whose queries were
\* answered: the drive has reported its resolution code to the call.
ReportedCode ==
    /\ out.op \in UnitAware
    /\ ~IsNone(calib)
    /\ handle = "open"
    /\ out.exc # "timeout"

\* C14: when the drive reports a microstep code that is not a key of
\* STEPS_PER_TURN, every unit conversion and every operation built on one
\* fails at the table lookup, right after the 'MR' query, and returns no
\* value.
C14_UnknownCodeFailsAtLookup ==
    (ReportedCode /\ devMR \notin DOMAIN STEPS_PER_TURN) =>
        /\ out.exc = "KeyError"
        /\ IsNone(out.val)
        /\ out.sent # <<>>
        /\ out.sent[Len(out.sent)] = <<"MR">>

C14_Witness ==
    /\ ReportedCode
    /\ devMR \notin DOMAIN STEPS_PER_TURN
    /\ out.op = "move_absolute"
    /\ out.exc = "KeyError"

\* C15: for each of the 16 resolution codes 0..15 the table has a value,
\* so with a calibration set the unit conversions succeed.
C15_AllCodesConvert ==
    (ReportedCode /\ out.op \in {"_unit_to_step", "_step_to_unit"}) =>
        /\ devMR \in DOMAIN STEPS_PER_TURN
        /\ out.exc = "none"

Moves == {"move_relative", "move_absolute"}

Feed(op) == IF op = "move_relative" THEN "FL" ELSE "FP"

Sent(cmd) == {i \in 1..Len(out.sent) : out.sent[i][1] = cmd}

\* C22: move_relative (move_absolute) sends 'DI<steps>' with the steps of
\* _unit_to_step(value) and only then, as the last command, 'FL' ('FP');
\* a move that succeeds has sent both; when the conversion fails for want
\* of a calibration or of a table entry, neither command is sent.
C22_DistanceBeforeFeed ==
    out.op \in Moves =>
        /\ \A i \in Sent(Feed(out.op)) :
               /\ i = Len(out.sent)
               /\ i - 1 \in Sent("DI")
        /\ \A i \in Sent("DI") :
               /\ ~IsNone(calib) /\ devMR \in DOMAIN STEPS_PER_TURN
               /\ WithinHalf(Times(out.arg, Factor), out.sent[i][2])
        /\ out.exc = "none" =>
               Sent(Feed(out.op)) # {} /\ Cardinality(Sent("DI")) = 1
        /\ (IsNone(calib) \/ devMR \notin DOMAIN STEPS_PER_TURN) =>
               Sent("DI") = {} /\ Sent("FL") = {} /\ Sent("FP") = {}

C22_Witness ==
    /\ out.op = "move_relative"
    /\ out.exc = "none"
    /\ Sent("FL") = {3}
    /\ out.sent[2][2] # 0

(***************************************************************************)
(* Properties of the waveform read-out (under SpecScope)                   *)
(***************************************************************************)
\* C5: _bytes_to_voltage gives one voltage per sample byte, in order, and
\* the voltage of byte s is (s - y_reference) * y_increment + y_origin; with
\* y_increment = 1, y_origin = 0 and y_reference = 128 the byte 128 decodes
\* to 0 and the byte 228 to 100.
C5_BytesDecodeInOrder ==
    trace.op = "_bytes_to_voltage" =>
        /\ trace.exc = "none"
        /\ Len(trace.voltage) = Len(data)
        /\ \A i \in 1..Len(data) :
              /\ trace.voltage[i] =
                    Plus(Times(Whole(data[i] - scope.y_reference), scope.y_increment),
                         scope.y_origin)
              /\ (/\ scope.y_increment = Whole(1)
                  /\ scope.y_origin = Whole(0)
                  /\ scope.y_reference = 128) =>
                     /\ data[i] = 128 => trace.voltage[i] = Whole(0)
                     /\ data[i] = 228 => trace.voltage[i] = Whole(100)

C5_Witness ==
    /\ trace.op = "_bytes_to_voltage"
    /\ data = <<128, 228>>
    /\ trace.voltage = <<Whole(0), Whole(100)>>

\* C6: the x axis get_trace returns has as many entries as the y axis,
\* whatever point count the instrument reports.
C6_AxisAsLongAsSamples ==
    (trace.op = "get_trace" /\ trace.exc = "none") =>
        Len(trace.time) = Len(trace.voltage)

\* C7: the time axis of the Keysight get_trace has exactly `points` entries,
\* and entry i (from 0) is x_origin + i * x_increment.
C7_TimeAxisHasPointsEntries ==
    (cls = "KeysightOscilloscope" /\ trace.op = "get_trace" /\ trace.exc = "none") =>
        /\ Len(trace.time) = trace.preamble[KPoints].n
        /\ \A i \in 1..Len(trace.time) :
              trace.time[i] = FAdd(trace.preamble[KXOrigin],
                                   FMul(Whole(i - 1), trace.preamble[KXIncrement]))

\* A text int() accepts, and one float() accepts.
Castable(type, t) == t.kind = "int" \/ (type = "float" /\ t.kind = "decimal")

\* The reply lacks a field of the preamble or has one its type cannot take.
Malformed(c, reply) ==
    \/ Len(reply) < Len(PREAMBLE_TYPES(c))
    \/ \E i \in 1..Min(Len(reply), Len(PREAMBLE_TYPES(c))) :
          ~Castable(PREAMBLE_TYPES(c)[i], reply[i])

\* C8: get_preamble fails with an error whenever the header reply is
\* truncated or has a field that cannot be cast to its type, and a Preamble
\* it returns has every field, each the cast of the reply's field.
C8_MalformedHeaderPropagates ==
    trace.op = "get_preamble" =>
        /\ Malformed(cls, trace.reply) =>
              trace.exc \in {"ValueError", "TypeError"} /\ trace.preamble = <<>>
        /\ trace.exc = "none" =>
              /\ Len(trace.preamble) = Len(PREAMBLE_TYPES(cls))
              /\ \A i \in 1..Len(trace.preamble) :
                    /\ trace.reply[i].kind # "bad"
                    /\ trace.preamble[i] = fl(trace.reply[i].v)

C8_Witness ==
    /\ trace.op = "get_preamble"
    /\ Len(trace.reply) = Len(PREAMBLE_TYPES(cls)) - 1
    /\ trace.exc = "TypeError"

(***************************************************************************)
(* Properties of the socket transport (under SpecSock)                     *)
(***************************************************************************)
\* C11 as stated: every query() sends its command exactly once, so the
\* number of sends by query() equals the number of query() calls.
C11_OneSendPerQuery ==
    /\ wire.sends - wire.writes = wire.queries
    /\ wire.last.op = "query" => wire.last.sent = 1 /\ wire.last.received = 1

\* C11 as amended: a query() on an open transport sends its command once
\* and receives once, a query() on a missing or closed transport fails
\* before anything is sent, and no command is ever sent twice: the sends by
\* query() equal the query() calls made on an open transport, and so do the
\* receives; a timeout reaches the caller.
C11_OneSendPerServedQuery ==
    /\ wire.sends - wire.writes = wire.served
    /\ wire.recvs = wire.served
    /\ wire.served <= wire.queries
    /\ wire.last.op = "query" =>
          /\ wire.last.sent <= 1
          /\ wire.last.received = wire.last.sent
          /\ wire.last.sent = 0 => wire.last.exc \in {"AttributeError", "OSError"}
          /\ wire.last.sent = 1 => wire.last.exc \in {"none", "timeout"}

C11_Witness ==
    /\ wire.last.op = "query"
    /\ wire.last.exc = "timeout"
    /\ wire.queries = MaxQueries
    /\ wire.sends - wire.writes = MaxQueries

\* C23: the reply query(cmd) returns is the device's reply to cmd, also
\* after an earlier query timed out and its reply arrived late.
C23_ReplyAnswersItsCommand ==
    (wire.last.op = "query" /\ wire.last.exc = "none") =>
        wire.last.answer = wire.last.cmd

(***************************************************************************)
(* Properties of the transport handle (under Spec)                         *)
(***************************************************************************)
\* C12: after any sequence of initialize() and close() calls on one
\* instance, at most one transport opened by that instance is open.
C12_AtMostOneOpenTransport == OpenTransports <= 1

\* C13: self._device is None or refers to an open transport, never to a
\* closed one.
C13_HandleOpenOrNone == handle \in {"None", "open"}

(***************************************************************************)
(* Properties of getters and constructors (under SpecCalls)                *)
(***************************************************************************)
WordGetters == {"get_alarm", "get_status"}

TableOf(op) == IF op = "get_alarm" THEN ERROR_CODES ELSE STATUS_CODES

\* The reported word has a bit that no key of the table has.
RECURSIVE KnownBits(_)
KnownBits(keys) ==
    IF keys = {} THEN 0
    ELSE LET k == CHOOSE k \in keys : TRUE
             rest == KnownBits(keys \ {k})
         IN  rest + k - BitAnd(rest, k)

HasUnknownBit(op, word) ==
    BitAnd(word, KnownBits(Keys(TableOf(op)))) # word

\* C16: get_alarm and get_status fail with an error when the reported word
\* has a bit set that is not a key of their table; they return no message
\* list for such a word.
C16_UnknownBitRaises ==
    (call.op \in WordGetters /\ HasUnknownBit(call.op, call.arg[1])) =>
        call.exc # "none"

\* An IP address: four groups of digits separated by dots and nothing else.
IsIPAddress(a) ==
    /\ Len(a) >= 7
    /\ \A i \in 1..Len(a) : a[i] \in {"1", "."}
    /\ Cardinality({i \in 1..Len(a) : a[i] = "."}) = 3
    /\ a[1] = "1" /\ a[Len(a)] = "1"
    /\ \A i \in 1..(Len(a) - 1) : ~(a[i] = "." /\ a[i + 1] = ".")

\* A VISA address that starts with 'USB' and ends with '::INSTR'.
IsUSBAddress(a) ==
    /\ Len(a) >= 3
    /\ a[1] = "USB" /\ a[Len(a)] = "::INSTR"
    /\ \A i \in 1..Len(a) : a[i] # "\n"

\* C17: the Keysight and the Rohde & Schwarz constructors raise ValueError
\* for every address that is neither an IP address nor a USB VISA address,
\* FPC1000 for every address that is not an IP address, and the two base
\* classes accept the same addresses.
C17_AddressValidated ==
    call.op = "__init__" =>
        LET a == call.arg[1]
        IN  /\ (cls # "FPC1000" /\ ~IsIPAddress(a) /\ ~IsUSBAddress(a)) =>
                   call.exc = "ValueError"
            /\ (cls = "FPC1000" /\ ~IsIPAddress(a)) => call.exc = "ValueError"
            /\ (KeysightDevice_init(a).exc = "none") =
                   (RSDevice_init(a).exc = "none")

\* C18: DG645.get_delay returns the pair (reference, delay) of the reply
\* 'reference,delay': the reference channel as an int, the delay as a float.
C18_DelayIsReferenceAndDelay ==
    (call.op = "get_delay" /\ call.exc = "none") =>
        LET respons == call.arg[1]
        IN  /\ call.val.shape = "tuple"
            /\ call.val.items =
                   <<IntVal(respons[1].v), FloatVal(respons[3].v)>>

\* C19: position, speed and acceleration return a float parsed from the
\* answer part of the reply, for SMC100 and for SMC100Dummy, and
\* error_and_controller_status returns two strings.
C19_GettersTyped ==
    /\ (call.op \in FloatGetters /\ call.exc = "none") =>
           /\ call.val.shape = "scalar"
           /\ call.val.items[1].type = "float"
    /\ (call.op \in FloatGetters /\ cls = "SMC100Dummy") => call.exc = "none"
    /\ (call.op = "error_and_controller_status" /\ call.exc = "none") =>
           /\ call.val.shape = "tuple"
           /\ Len(call.val.items) = 2
           /\ \A i \in 1..2 : call.val.items[i].type = "str"

\* C20: DG645Dummy(address, port) can be constructed.
C20_DummyConstructs == call.op = "DG645Dummy" => call.exc = "none"

\* The bits set in a 16-bit word, and the place of bit i among them.
SetBits(word) == {i \in 0..15 : (word \div Pow2(i)) % 2 = 1}

Rank(bits, i) == Cardinality({j \in bits : j <= i})

Answered16(op) ==
    /\ call.op = op
    /\ call.exc = "none"
    /\ call.arg[1] < 65536

\* C21: for a 16-bit word, get_alarm and get_status return the message of
\* code 0 exactly when the word is 0, and otherwise one message per set
\* bit, in ascending bit order; is_moving is TRUE exactly when get_status
\* of the same word has the message of bit 0x0010.
C21_OneMessagePerSetBit ==
    /\ \A op \in WordGetters :
         Answered16(op) =>
             LET word == call.arg[1]
                 bits == SetBits(word)
                 zero == <<Lookup(TableOf(op), 0)>>
             IN  /\ (word = 0) = (call.val = zero)
                 /\ word # 0 =>
                      /\ Len(call.val) = Cardinality(bits)
                      /\ \A i \in bits :
                           call.val[Rank(bits, i)] =
                               Lookup(TableOf(op), Pow2(i))
    /\ Answered16("is_moving") =>
           LET status == get_status("open", "reply", HexDigits(call.arg[1], 4))
           IN  call.val = (\E i \in 1..Len(status.val) :
                               status.val[i] = Lookup(STATUS_CODES, 16))

C21_Witness ==
    /\ Answered16("get_status")
    /\ call.arg[1] = 524
    /\ Len(call.val) = 3

SentTo(cmd) ==
    {i \in 1..Len(call.val.sent) : call.val.sent[i][1] = cmd}

\* C24: _query sends ENQ only after the gauge answered the command with ACK;
\* on NAK or any other answer it raises, sends no ENQ and returns no data.
C24_EnquiryOnlyAfterAck ==
    call.op = "_query" =>
        /\ SentTo("ENQ") # {} => call.arg[2] = "ACK"
        /\ call.arg[2] # "ACK" =>
               /\ call.exc # "none"
               /\ call.val.data = <<>>

\* C25: pressure_gauge raises ValueError for a gauge other than 1 or 2 and
\* then sends nothing; for gauge 1 or 2 it sends 'PR1' / 'PR2' first, and
\* what it returns is (pressure as float, (status code as int, status
\* text)) of the data read.
C25_PressureGauge ==
    call.op = "pressure_gauge" =>
        LET gauge == call.arg[1]
            reading == call.val.data
        IN  /\ gauge \notin {1, 2} =>
                   call.exc = "ValueError" /\ call.val.sent = <<>>
            /\ (gauge \in {1, 2} /\ call.val.sent # <<>>) =>
                   call.val.sent[1] = <<"PR", gauge>>
            /\ (gauge \in {1, 2} /\ call.exc = "none") =>
                   /\ call.val.sent # <<>>
                   /\ Len(reading) = 3
                   /\ call.val.value.shape = "tuple"
                   /\ Len(call.val.value.items) = 2
                   /\ call.val.value.items[1] = FloatVal(reading[3].v)
                   /\ call.val.value.items[2].type = "tuple"
                   /\ call.val.value.items[2].text[1] = IntVal(reading[1].v)
                   /\ call.val.value.items[2].text[2].type = "str"
                   /\ \E i \in 1..Len(MEASUREMENT_STATUS) :
                        /\ MEASUREMENT_STATUS[i][1] = reading[1].v
                        /\ MEASUREMENT_STATUS[i][2] =
                               call.val.value.items[2].text[2].text

C25_Witness ==
    /\ call.op = "pressure_gauge"
    /\ call.exc = "none"
    /\ call.arg[1] = 2
    /\ call.val.value.items[2].text[1] = IntVal(6)

(***************************************************************************)
(* Properties of SMC100.wait_move_finish (under SpecWait)                  *)
(***************************************************************************)
Returns == call.op = "wait_move_finish" /\ call.val.pc = "done"

C27_QueryReturnsAnswer ==
    (call.op = "query" /\ call.exc = "none") =>
        /\ call.arg[4] = DecDigits(call.arg[1]) \o call.arg[2]
        /\ call.val = call.arg[3]

\* C28: get_ana returns the three comma-separated fields of the reply
\* whenever the reply has three fields, and zeros only when it has none.
C28_AnalysisFields ==
    (call.op = "get_ana" /\ call.exc = "none") =>
        LET fields == Split(call.arg[1])
            zeros == [i \in 1..3 |-> IntVal(0)]
        IN  /\ Len(fields) = 3 =>
                   /\ Len(call.val.items) = 3
                   /\ \A i \in 1..3 : call.val.items[i].text = fields[i]
            /\ call.val.items = zeros => call.arg[1] = <<>>

====
